---- MODULE Spec2Model ----
(***************************************************************************)
(* Durable execution engine: Engine.Execute, newContext, Step, Context.Go  *)
(* / Context.Wait and the SQLite-backed Storage, as a state machine.       *)
(*                                                                         *)
(* Strings that the code builds or parses (step ids, step keys, JSON       *)
(* output) are sequences of one-character strings, so that formatting is   *)
(* modelled by what it does.  Errors are sequences of strings: the chain   *)
(* of messages from the outermost wrapper to the root cause; nil is <<>>.  *)
(***************************************************************************)
EXTENDS Integers, Sequences, FiniteSets, TLC

\* ---------------------------------------------------------------- bounds
\* Number of Engine.Execute calls made over the life of the store.
MaxRuns == 3
\* The same, when the Procedures spawn branches.
MaxParRuns == 2

Runs == 1..MaxRuns
ParRuns == 1..MaxParRuns

\* ---------------------------------------------------------------- inputs
WorkflowIDs == {"w1", "w2"}

ida == <<"a">>
idb == <<"b">>
\* Step ids the caller must not use: the empty one, one with the separator.
idEmpty == <<>>
idSep == <<"a", ":", "1">>
StepIDs == {ida, idb, idEmpty, idSep}

\* A Procedure: Step calls made one after the other on the calling thread,
\* then one ctx.Go branch per entry of branches (each branch calls Step once
\* and returns its error), then ctx.Wait when branches were spawned, then
\* return (errors.New("simulated crash") when fail).
ProcSeq == [main |-> <<ida, idb>>, branches |-> <<>>, fail |-> FALSE]
ProcCrash == [main |-> <<ida>>, branches |-> <<>>, fail |-> TRUE]
ProcPar == [main |-> <<>>, branches |-> <<ida, idb>>, fail |-> FALSE]
ProcRace == [main |-> <<>>, branches |-> <<ida, ida>>, fail |-> FALSE]
\* Procedures whose Step calls have a result type of their own (ty, by thread;
\* int where none is given): a channel, which json.Marshal refuses, and a
\* string, into which json.Unmarshal cannot decode a stored int.
ProcChan == [main |-> <<ida>>, branches |-> <<>>, fail |-> FALSE, ty |-> (0 :> "chan")]
ProcString == [main |-> <<ida>>, branches |-> <<>>, fail |-> FALSE, ty |-> (0 :> "string")]
ProcRaceTyped == [main |-> <<>>, branches |-> <<ida, ida>>, fail |-> FALSE,
                  ty |-> (1 :> "int" @@ 2 :> "string")]
CodecProcedures == {ProcCrash, ProcChan, ProcString, ProcRaceTyped}
StepType(p, t) == IF "ty" \in DOMAIN p /\ t \in DOMAIN p.ty THEN p.ty[t] ELSE "int"

ProcMisuse == [main |-> <<idEmpty, idSep>>, branches |-> <<>>, fail |-> FALSE]
SeqProcedures == {ProcSeq, ProcCrash}
ParProcedures == {ProcPar, ProcRace}
Procedures == SeqProcedures \cup ParProcedures \cup CodecProcedures \cup {ProcMisuse}

NoProc == [main |-> <<>>, branches |-> <<>>, fail |-> FALSE]

SetMax(S) == CHOOSE x \in S : \A y \in S : y <= x

\* Thread 0 is the goroutine that called Execute, thread j the j-th ctx.Go.
MainThread == 0
Threads == 0 .. SetMax({Len(p.branches) : p \in Procedures})

\* ---------------------------------------------------------------- values
nil == <<>>
NULL == <<>>
EmptyMap == <<>>

Wrap(msg, err) == <<msg>> \o err
BodyError(id) == <<"body failed">> \o id
SimulatedCrash == <<"simulated crash">>

Digit(d) == CASE d = 0 -> "0" [] d = 1 -> "1" [] d = 2 -> "2" [] d = 3 -> "3"
              [] d = 4 -> "4" [] d = 5 -> "5" [] d = 6 -> "6" [] d = 7 -> "7"
              [] d = 8 -> "8" [] d = 9 -> "9"

\* fmt "%d" of a non-negative integer.
RECURSIVE FormatInt(_)
FormatInt(n) == IF n < 10 THEN <<Digit(n)>>
                ELSE FormatInt(n \div 10) \o <<Digit(n % 10)>>

\* Without the separator.
generateStepKeyNoSep(stepID, sequenceNum) == stepID \o FormatInt(sequenceNum)

\* fmt.Sprintf("%s:%d", stepID, sequenceNum).
generateStepKey(stepID, sequenceNum) == stepID \o <<":">> \o FormatInt(sequenceNum)

\* json.Marshal of an int result.
Marshal(v) == FormatInt(v)

\* The error of json.Marshal / json.Unmarshal.
CodecError == <<"codec failure">>

\* json.Marshal of a result of type ty: digits for an int, the quoted text for
\* a string, an error for a channel.
Encodable(ty) == ty \in {"int", "string"}
Encode(ty, v) == IF ty = "int" THEN Marshal(v) ELSE <<"\"">> \o FormatInt(v) \o <<"\"">>

\* json.Unmarshal into a variable of type ty: a JSON number decodes into an
\* int and a JSON string into a string, nothing into a channel.
Decodable(bytes, ty) ==
    /\ Len(bytes) > 0
    /\ \/ ty = "int" /\ bytes[1] # "\""
       \/ ty = "string" /\ bytes[1] = "\""

\* The result of the Body invoked in Execute call e on goroutine t.  Bodies need
\* not be deterministic: every invocation returns a value of its own.
BodyResult(e, t) == (e - 1) * Cardinality(Threads) + t + 1

\* ---------------------------------------------------------------- storage
Put(f, k, v) == (k :> v) @@ f
Drop(f, k) == [x \in DOMAIN f \ {k} |-> f[x]]

\* INSERT OR REPLACE in place of INSERT OR IGNORE.
CreateWorkflowReplace(tbl, workflowID) == [tbl EXCEPT ![workflowID] = "running"]

\* INSERT OR IGNORE: an existing row keeps its status.
CreateWorkflow(tbl, workflowID) ==
    IF tbl[workflowID] = "none" THEN [tbl EXCEPT ![workflowID] = "running"] ELSE tbl

UpdateWorkflowStatus(tbl, workflowID, status) ==
    IF tbl[workflowID] = "none" THEN tbl ELSE [tbl EXCEPT ![workflowID] = status]

\* An unknown workflow is reported as running.
GetWorkflowStatusDefault(tbl, workflowID) ==
    [status |-> IF tbl[workflowID] = "none" THEN "running" ELSE tbl[workflowID],
     err |-> <<>>]

\* SELECT status FROM workflows: sql.ErrNoRows becomes "workflow not found".
GetWorkflowStatus(tbl, workflowID) ==
    IF tbl[workflowID] = "none" THEN [status |-> "", err |-> <<"workflow not found">>]
    ELSE [status |-> tbl[workflowID], err |-> <<>>]

GetStep(tbl, workflowID, stepKey) ==
    IF stepKey \in DOMAIN tbl /\ tbl[stepKey].workflow_id = workflowID
                              /\ tbl[stepKey].status = "completed"
    THEN [found |-> TRUE, output |-> tbl[stepKey].output]
    ELSE [found |-> FALSE, output |-> NULL]

MarkStepInProgress(tbl, workflowID, stepKey, stepID, sequenceNum) ==
    IF stepKey \in DOMAIN tbl
    THEN [tbl EXCEPT ![stepKey].status = "in_progress"]
    ELSE Put(tbl, stepKey, [workflow_id |-> workflowID, step_id |-> stepID,
                            sequence_num |-> sequenceNum, status |-> "in_progress",
                            output |-> NULL, error |-> NULL])

SaveStep(tbl, workflowID, stepKey, output) ==
    IF stepKey \in DOMAIN tbl /\ tbl[stepKey].workflow_id = workflowID
    THEN [tbl EXCEPT ![stepKey].status = "completed", ![stepKey].output = output]
    ELSE tbl

SaveStepError(tbl, workflowID, stepKey, errMsg) ==
    IF stepKey \in DOMAIN tbl /\ tbl[stepKey].workflow_id = workflowID
    THEN [tbl EXCEPT ![stepKey].status = "failed", ![stepKey].error = errMsg]
    ELSE tbl

RowsOf(tbl, workflowID) == {k \in DOMAIN tbl : tbl[k].workflow_id = workflowID}

GetMaxSequenceNum(tbl, workflowID) ==
    IF RowsOf(tbl, workflowID) = {} THEN 0
    ELSE SetMax({tbl[k].sequence_num : k \in RowsOf(tbl, workflowID)})

LoadCompletedSteps(tbl, workflowID) ==
    LET ks == {k \in RowsOf(tbl, workflowID) : tbl[k].status = "completed"}
    IN  [k \in ks |-> tbl[k].output]

\* Only the completed rows are read.
LoadStepIDMappingCompleted(tbl, workflowID) ==
    LET rows == {k \in RowsOf(tbl, workflowID) : tbl[k].status = "completed"}
        ids == {tbl[k].step_id : k \in rows}
    IN  {m \in [ids -> 1..GetMaxSequenceNum(tbl, workflowID)] :
            \A id \in ids : \E k \in rows : tbl[k].step_id = id /\ tbl[k].sequence_num = m[id]}

\* The query has no ORDER BY and mapping[stepID] = seqNum keeps the last row
\* scanned: with several rows of one step_id any of their numbers may win.
LoadStepIDMapping(tbl, workflowID) ==
    LET ids == {tbl[k].step_id : k \in RowsOf(tbl, workflowID)}
        nums(id) == {tbl[k].sequence_num :
                        k \in {r \in RowsOf(tbl, workflowID) : tbl[r].step_id = id}}
    IN  {m \in [ids -> 1..GetMaxSequenceNum(tbl, workflowID)] :
            \A id \in ids : m[id] \in nums(id)}


\* ---------------------------------------------------------------- state
VARIABLES
    workflows,  \* table workflows: workflow_id -> status ("none": no row)
    steps,      \* table steps: step_key (UNIQUE) -> row
    run,        \* each Execute call: its position, arguments and result
    ctx,        \* the Context and errgroup of each Execute call in progress
    thr,        \* the goroutines of each Execute call in progress
    bodyOk,     \* history: successful Body returns per workflow and StepID
    okRet,      \* history: the Step calls that returned a result
    assigned,   \* history: <<workflow, StepID, SequenceNum>> used by Step calls
    invoked,    \* history: <<run, StepID, ok>> for each Body invocation
    joined,     \* history: errors returned by the branches, in return order
    retry       \* the call of retryOnBusy in progress, and the calls made

vars == <<workflows, steps, run, ctx, thr, bodyOk, okRet, assigned, invoked, joined,
          retry>>

store == <<workflows, steps>>
history == <<bodyOk, okRet, assigned, invoked, joined>>

IdleRun == [pc |-> "idle", wf |-> "w1", proc |-> NoProc, res |-> nil, prior |-> {}]
EmptyContext == [sequenceNum |-> 0, completedSteps |-> EmptyMap,
                 stepIDToSeq |-> EmptyMap, egErr |-> nil, mu |-> {}]
Off == [pc |-> "off", ip |-> 0, seqNum |-> 0, out |-> NULL, err |-> nil]
NoThreads == [t \in Threads |-> Off]
\* No call of retryOnBusy is in progress.
NoRetry == [pc |-> "idle", op |-> "", i |-> 0, err |-> nil, seen |-> <<>>, ret |-> nil,
            calls |-> 0]

Init ==
    /\ workflows = [w \in WorkflowIDs |-> "none"]
    /\ steps = EmptyMap
    /\ run = [e \in Runs |-> IdleRun]
    /\ ctx = EmptyMap
    /\ thr = EmptyMap
    /\ bodyOk = [w \in WorkflowIDs |-> [id \in StepIDs |-> 0]]
    /\ okRet = {}
    /\ assigned = {}
    /\ invoked = {}
    /\ joined = EmptyMap
    /\ retry = NoRetry

Ended(e) == run[e].pc \in {"done", "crashed"}
Active(e) == run[e].pc \notin {"idle", "done", "crashed"}

\* ---------------------------------------------------------------- control flow
Ret(err) == [Off EXCEPT !.pc = "ret", !.err = err]
At(pc, ip) == [Off EXCEPT !.pc = pc, !.ip = ip]

\* The Procedure once its sequential Step calls are done.
AfterMain(p) ==
    IF Len(p.branches) > 0 THEN At("go", 1)
    ELSE Ret(IF p.fail THEN SimulatedCrash ELSE nil)

EnterProcedure(p) == IF Len(p.main) > 0 THEN At("assign", 1) ELSE AfterMain(p)

\* Where a goroutine goes when its Step call returns err.
AfterStep(e, t, err) ==
    IF t # MainThread \/ err # nil THEN Ret(err)
    ELSE IF thr[e][t].ip < Len(run[e].proc.main) THEN At("assign", thr[e][t].ip + 1)
    ELSE AfterMain(run[e].proc)

CurID(e, t) ==
    IF t = MainThread THEN run[e].proc.main[thr[e][t].ip] ELSE run[e].proc.branches[t]

CurKey(e, t) == generateStepKey(CurID(e, t), thr[e][t].seqNum)

CurType(e, t) == StepType(run[e].proc, t)

InStep(e, t, pc) == run[e].pc = "proc" /\ thr[e][t].pc = pc

\* Without errOnce: the last error returned by a branch is kept.
egRecordLast(old, err) == IF err # nil THEN err ELSE old

\* errgroup.Group.Go: the first non-nil error returned by a branch is kept.
egRecord(old, err) == IF old = nil THEN err ELSE old

\* Step returns err on goroutine t; c is the Context as the call leaves it.
StepReturns(e, t, err, c) ==
    /\ thr' = [thr EXCEPT ![e][t] = AfterStep(e, t, err)]
    /\ ctx' = [ctx EXCEPT ![e] = IF t = MainThread THEN c
                                 ELSE [c EXCEPT !.egErr = egRecord(c.egErr, err)]]
    /\ joined' = IF t = MainThread THEN joined
                 ELSE [joined EXCEPT ![e] = Append(@, err)]


\* ---------------------------------------------------------------- Engine.Execute
\* Execute(workflowID, workflowFn) is called and runs CreateWorkflow.
Execute(e, w, p) ==
    /\ run[e].pc = "idle"
    /\ \A r \in Runs : r < e => run[r].pc # "idle"
    /\ workflows' = CreateWorkflow(workflows, w)
    /\ run' = [run EXCEPT ![e] = [pc |-> "status", wf |-> w, proc |-> p, res |-> nil,
                                  prior |-> {r \in Runs : Ended(r)}]]
    /\ ctx' = Put(ctx, e, EmptyContext)
    /\ thr' = Put(thr, e, NoThreads)
    /\ joined' = Put(joined, e, <<>>)
    /\ UNCHANGED <<steps, bodyOk, okRet, assigned, invoked>>
    /\ UNCHANGED retry

\* The Execute call is over: its Context and goroutines are gone.
Forget(e) ==
    /\ ctx' = Drop(ctx, e)
    /\ thr' = Drop(thr, e)
    /\ joined' = Drop(joined, e)

\* GetWorkflowStatus, and the early return for a completed workflow.
ExecuteStatus(e) ==
    /\ run[e].pc = "status"
    /\ IF GetWorkflowStatus(workflows, run[e].wf).status = "completed"
       THEN run' = [run EXCEPT ![e].pc = "done"] /\ Forget(e)
       ELSE run' = [run EXCEPT ![e].pc = "load_completed"] /\ UNCHANGED <<ctx, thr, joined>>
    /\ UNCHANGED <<store, bodyOk, okRet, assigned, invoked>>
    /\ UNCHANGED retry

\* newContext: the three queries are three statements on the store.
NewContextCompleted(e) ==
    /\ run[e].pc = "load_completed"
    /\ ctx' = [ctx EXCEPT ![e].completedSteps = LoadCompletedSteps(steps, run[e].wf)]
    /\ run' = [run EXCEPT ![e].pc = "load_mapping"]
    /\ UNCHANGED <<store, thr, history>>
    /\ UNCHANGED retry

NewContextMapping(e) ==
    /\ run[e].pc = "load_mapping"
    /\ \E m \in LoadStepIDMapping(steps, run[e].wf) :
          ctx' = [ctx EXCEPT ![e].stepIDToSeq = m]
    /\ run' = [run EXCEPT ![e].pc = "load_max"]
    /\ UNCHANGED <<store, thr, history>>
    /\ UNCHANGED retry

\* GetMaxSequenceNum, then workflowFn(ctx) starts on the calling goroutine.
NewContextMaxSeq(e) ==
    /\ run[e].pc = "load_max"
    /\ ctx' = [ctx EXCEPT ![e].sequenceNum = GetMaxSequenceNum(steps, run[e].wf)]
    /\ run' = [run EXCEPT ![e].pc = "proc"]
    /\ thr' = [thr EXCEPT ![e][MainThread] = EnterProcedure(run[e].proc)]
    /\ UNCHANGED <<store, history>>
    /\ UNCHANGED retry

\* workflowFn returned: the status update and Execute's result.
ExecuteResult(err) == IF err = nil THEN nil ELSE Wrap("workflow execution failed", err)

\* The workflow is marked completed whatever the Procedure returned.
ExecuteFinalStatusAlways(err) == "completed"

\* failed when workflowFn returned an error, completed otherwise.
ExecuteFinalStatus(err) == IF err = nil THEN "completed" ELSE "failed"

ExecuteReturn(e) ==
    /\ InStep(e, MainThread, "ret")
    /\ workflows' = UpdateWorkflowStatus(workflows, run[e].wf,
                                         ExecuteFinalStatus(thr[e][MainThread].err))
    /\ run' = [run EXCEPT ![e].pc = "done",
                          ![e].res = ExecuteResult(thr[e][MainThread].err)]
    /\ Forget(e)
    /\ UNCHANGED <<steps, bodyOk, okRet, assigned, invoked>>
    /\ UNCHANGED retry

\* The process dies: Context and goroutines are lost, the store stays.
Crash(e) ==
    /\ Active(e)
    /\ run' = [run EXCEPT ![e].pc = "crashed"]
    /\ Forget(e)
    /\ UNCHANGED <<store, bodyOk, okRet, assigned, invoked>>
    /\ UNCHANGED retry

\* Execute calls made one after the other.  Workflow ids are interchangeable:
\* the first call is for w1.
ExecuteAlone(e, w, p) ==
    /\ \A r \in Runs : ~Active(r)
    /\ w = "w2" => workflows["w1"] # "none"
    /\ Execute(e, w, p)

\* ---------------------------------------------------------------- Step
OkRecord(e, t, out) ==
    [run |-> e, wf |-> run[e].wf, id |-> CurID(e, t), key |-> CurKey(e, t), out |-> out]

\* The counter is read but not advanced.
AssignSequenceNoAdd(c, id) ==
    IF id \in DOMAIN c.stepIDToSeq THEN c
    ELSE [c EXCEPT !.stepIDToSeq = Put(@, id, c.sequenceNum + 1)]

\* The counter's value before the increment is used as the new number.
AssignSequenceOld(c, id) ==
    IF id \in DOMAIN c.stepIDToSeq THEN c
    ELSE [c EXCEPT !.sequenceNum = @ + 1, !.stepIDToSeq = Put(@, id, c.sequenceNum)]

\* 1. Sequence number: reuse the one of a known step ID, else take the next
\* (atomic.AddInt64 under ctx.mu) and remember it.
AssignSequence(c, id) ==
    IF id \in DOMAIN c.stepIDToSeq THEN c
    ELSE [c EXCEPT !.sequenceNum = @ + 1, !.stepIDToSeq = Put(@, id, c.sequenceNum + 1)]

StepAssign(e, t) ==
    /\ InStep(e, t, "assign")
    /\ LET id == CurID(e, t)
           c == AssignSequence(ctx[e], id)
       IN  /\ ctx' = [ctx EXCEPT ![e] = c]
           /\ thr' = [thr EXCEPT ![e][t].pc = "cache", ![e][t].seqNum = c.stepIDToSeq[id]]
           /\ assigned' = assigned \cup {<<run[e].wf, id, c.stepIDToSeq[id]>>}
    /\ UNCHANGED <<store, run, bodyOk, okRet, invoked, joined>>
    /\ UNCHANGED retry

\* 2. In-memory cache.
StepCache(e, t) ==
    /\ InStep(e, t, "cache")
    /\ IF CurKey(e, t) \in DOMAIN ctx[e].completedSteps
       THEN IF Decodable(ctx[e].completedSteps[CurKey(e, t)], CurType(e, t))
            THEN /\ StepReturns(e, t, nil, ctx[e])
                 /\ okRet' = okRet \cup {OkRecord(e, t, ctx[e].completedSteps[CurKey(e, t)])}
            ELSE /\ StepReturns(e, t, Wrap("failed to unmarshal cached result", CodecError),
                                ctx[e])
                 /\ UNCHANGED okRet
       ELSE /\ thr' = [thr EXCEPT ![e][t].pc = "getstep"]
            /\ UNCHANGED <<ctx, okRet, joined>>
    /\ UNCHANGED <<store, run, bodyOk, assigned, invoked>>
    /\ UNCHANGED retry

\* 3. Database.
StepGetStep(e, t) ==
    /\ InStep(e, t, "getstep")
    /\ LET r == GetStep(steps, run[e].wf, CurKey(e, t))
       IN  thr' = [thr EXCEPT ![e][t].pc = IF r.found THEN "fill" ELSE "mark",
                              ![e][t].out = r.output]
    /\ UNCHANGED <<store, run, ctx, history>>
    /\ UNCHANGED retry

\* The memo hit writes the marker again.
StepFillMarks(e, t) ==
    /\ InStep(e, t, "fill")
    /\ StepReturns(e, t, nil,
                   [ctx[e] EXCEPT !.completedSteps = Put(@, CurKey(e, t), thr[e][t].out)])
    /\ okRet' = okRet \cup {OkRecord(e, t, thr[e][t].out)}
    /\ steps' = MarkStepInProgress(steps, run[e].wf, CurKey(e, t), CurID(e, t),
                                   thr[e][t].seqNum)
    /\ UNCHANGED <<workflows, run, bodyOk, assigned, invoked>>
    /\ UNCHANGED retry

\* The output is cached before it is decoded.
StepFillCachesFirst(e, t) ==
    /\ InStep(e, t, "fill")
    /\ StepReturns(e, t, IF Decodable(thr[e][t].out, CurType(e, t)) THEN nil
                         ELSE Wrap("failed to unmarshal database result", CodecError),
                   [ctx[e] EXCEPT !.completedSteps = Put(@, CurKey(e, t), thr[e][t].out)])
    /\ okRet' = IF Decodable(thr[e][t].out, CurType(e, t))
                THEN okRet \cup {OkRecord(e, t, thr[e][t].out)} ELSE okRet
    /\ UNCHANGED <<store, run, bodyOk, assigned, invoked>>
    /\ UNCHANGED retry

\* The record was completed: decode its output, cache it and return the result.
StepFill(e, t) ==
    /\ InStep(e, t, "fill")
    /\ IF Decodable(thr[e][t].out, CurType(e, t))
       THEN /\ StepReturns(e, t, nil,
                   [ctx[e] EXCEPT !.completedSteps = Put(@, CurKey(e, t), thr[e][t].out)])
            /\ okRet' = okRet \cup {OkRecord(e, t, thr[e][t].out)}
       ELSE /\ StepReturns(e, t, Wrap("failed to unmarshal database result", CodecError),
                           ctx[e])
            /\ UNCHANGED okRet
    /\ UNCHANGED <<store, run, bodyOk, assigned, invoked>>
    /\ UNCHANGED retry

\* 4. In-progress marker.
StepMark(e, t) ==
    /\ InStep(e, t, "mark")
    /\ steps' = MarkStepInProgress(steps, run[e].wf, CurKey(e, t), CurID(e, t),
                                   thr[e][t].seqNum)
    /\ thr' = [thr EXCEPT ![e][t].pc = "body"]
    /\ UNCHANGED <<workflows, run, ctx, history>>
    /\ UNCHANGED retry

\* 5. fn() runs and returns a result, which is marshalled, or an error.
StepBodyOk(e, t) ==
    /\ InStep(e, t, "body")
    /\ IF Encodable(CurType(e, t))
       THEN /\ thr' = [thr EXCEPT ![e][t].pc = "save",
                                  ![e][t].out = Encode(CurType(e, t), BodyResult(e, t))]
            /\ UNCHANGED <<ctx, joined>>
       ELSE StepReturns(e, t, Wrap("failed to marshal result", CodecError), ctx[e])
    /\ bodyOk' = [bodyOk EXCEPT ![run[e].wf][CurID(e, t)] = @ + 1]
    /\ invoked' = invoked \cup {<<e, CurID(e, t), TRUE>>}
    /\ UNCHANGED <<store, run, okRet, assigned>>
    /\ UNCHANGED retry

StepBodyError(e, t) ==
    /\ InStep(e, t, "body")
    /\ thr' = [thr EXCEPT ![e][t].pc = "saveerr", ![e][t].err = BodyError(CurID(e, t))]
    /\ invoked' = invoked \cup {<<e, CurID(e, t), FALSE>>}
    /\ UNCHANGED <<store, run, ctx, bodyOk, okRet, assigned, joined>>
    /\ UNCHANGED retry

StepSaveError(e, t) ==
    /\ InStep(e, t, "saveerr")
    /\ steps' = SaveStepError(steps, run[e].wf, CurKey(e, t), thr[e][t].err)
    /\ StepReturns(e, t, thr[e][t].err, ctx[e])
    /\ UNCHANGED <<workflows, run, bodyOk, okRet, assigned, invoked>>
    /\ UNCHANGED retry

\* 6. Save the result ...
StepSave(e, t) ==
    /\ InStep(e, t, "save")
    /\ steps' = SaveStep(steps, run[e].wf, CurKey(e, t), thr[e][t].out)
    /\ thr' = [thr EXCEPT ![e][t].pc = "store"]
    /\ UNCHANGED <<workflows, run, ctx, history>>
    /\ UNCHANGED retry

\* ... cache it and return it.
StepStore(e, t) ==
    /\ InStep(e, t, "store")
    /\ StepReturns(e, t, nil,
                   [ctx[e] EXCEPT !.completedSteps = Put(@, CurKey(e, t), thr[e][t].out)])
    /\ okRet' = okRet \cup {OkRecord(e, t, thr[e][t].out)}
    /\ UNCHANGED <<store, run, bodyOk, assigned, invoked>>
    /\ UNCHANGED retry

\* ---------------------------------------------------------------- Go / Wait
\* ctx.Go(fn): the next branch starts; after the last one comes ctx.Wait.
Go(e) ==
    /\ InStep(e, MainThread, "go")
    /\ LET j == thr[e][MainThread].ip
       IN  thr' = [thr EXCEPT ![e][j] = At("assign", 0),
                              ![e][MainThread] =
                                  IF j < Len(run[e].proc.branches) THEN At("go", j + 1)
                                  ELSE At("wait", 0)]
    /\ UNCHANGED <<store, run, ctx, history>>
    /\ UNCHANGED retry

BranchesOf(e) == 1 .. Len(run[e].proc.branches)

\* Wait goes on only when every branch has returned nil.
WaitReadyAllOk(e) ==
    \A j \in 1 .. Len(run[e].proc.branches) : thr[e][j].pc = "ret" /\ thr[e][j].err = nil

\* errgroup.Group.Wait: blocks until every branch has returned.
WaitReady(e) == \A j \in BranchesOf(e) : thr[e][j].pc = "ret"

WaitResult(e) == ctx[e].egErr

\* ctx.Wait returns and the Procedure returns what it returned.
Wait(e) ==
    /\ InStep(e, MainThread, "wait")
    /\ WaitReady(e)
    /\ thr' = [thr EXCEPT ![e][MainThread] =
                  Ret(IF WaitResult(e) # nil THEN WaitResult(e)
                      ELSE IF run[e].proc.fail THEN SimulatedCrash ELSE nil)]
    /\ UNCHANGED <<store, run, ctx, history>>
    /\ UNCHANGED retry

\* ---------------------------------------------------------------- specification
\* What one goroutine does inside Step, without the second lookup's hit.
StepNext(e, t) ==
    \/ StepAssign(e, t)
    \/ StepCache(e, t)
    \/ StepGetStep(e, t)
    \/ StepMark(e, t)
    \/ StepBodyOk(e, t)
    \/ StepBodyError(e, t)
    \/ StepSaveError(e, t)
    \/ StepSave(e, t)
    \/ StepStore(e, t)

EngineNext(e) ==
    \/ ExecuteStatus(e)
    \/ NewContextCompleted(e)
    \/ NewContextMapping(e)
    \/ NewContextMaxSeq(e)
    \/ ExecuteReturn(e)
    \/ Crash(e)

\* Procedures without branches, Execute calls one after the other.
Next ==
    \/ \E e \in Runs, w \in WorkflowIDs, p \in SeqProcedures : ExecuteAlone(e, w, p)
    \/ \E e \in Runs : EngineNext(e)
    \/ \E e \in Runs : StepNext(e, MainThread)

Spec == Init /\ [][Next]_vars

\* Procedures that spawn branches, Execute calls one after the other.
NextPar ==
    \/ \E e \in ParRuns, w \in WorkflowIDs, p \in ParProcedures : ExecuteAlone(e, w, p)
    \/ \E e \in ParRuns : EngineNext(e)
    \/ \E e \in ParRuns, t \in Threads : StepNext(e, t)
    \/ \E e \in ParRuns, t \in Threads : StepFill(e, t)
    \/ \E e \in ParRuns : Go(e)
    \/ \E e \in ParRuns : Wait(e)

SpecPar == Init /\ [][NextPar]_vars


\* ---------------------------------------------------------------- properties
RunsOnSame(e) == {r \in run[e].prior : run[r].wf = run[e].wf /\ run[r].proc = run[e].proc}
BodyFailedIn(e) == \E id \in StepIDs : <<e, id, FALSE>> \in invoked

\* C1: over all Execute calls, the Body of a StepID of a workflow returns
\* successfully at most once.
C1_Memoization == \A w \in WorkflowIDs, id \in StepIDs : bodyOk[w][id] <= 1

\* C2: an Execute that follows an ended Execute of the same workflow and
\* Procedure invokes no Body of a step whose Step call had returned a result
\* there, runs the Body of a step only served from memo if it had succeeded
\* before, and ends Ok and completed when none of its Bodies fails.
C2_ResumeCorrectness ==
    \A e \in Runs : \A r \in RunsOnSame(e) :
        /\ \A x \in okRet : x.run = r =>
              <<e, x.id, TRUE>> \notin invoked /\ <<e, x.id, FALSE>> \notin invoked
        /\ \A x \in okRet : (x.run = e /\ <<e, x.id, TRUE>> \notin invoked) =>
              bodyOk[x.wf][x.id] >= 1
        /\ (run[e].pc = "done" /\ ~run[e].proc.fail /\ ~BodyFailedIn(e)) =>
              run[e].res = nil /\ workflows[run[e].wf] = "completed"

\* C3: once Step has returned a result for a step of a workflow, GetStep for
\* that workflow and StepKey answers completed with the bytes of that result.
C3_DurableCompletion ==
    \A x \in okRet : GetStep(steps, x.wf, x.key) = [found |-> TRUE, output |-> x.out]


\* C4: Execute on a workflow whose status is completed writes nothing when it
\* is called, and on reading the status returns nil without entering the
\* Procedure, invoking a Body or writing to the store.
C4_CompletedTerminal ==
    [][\A e \in Runs :
        /\ (run[e].pc = "idle" /\ run'[e].pc # "idle"
                /\ workflows[run'[e].wf] = "completed") => UNCHANGED store
        /\ (run[e].pc = "status" /\ run'[e].pc \notin {"status", "crashed"}
                /\ workflows[run[e].wf] = "completed") =>
              /\ run'[e].pc = "done" /\ run'[e].res = nil
              /\ thr[e] = NoThreads
              /\ UNCHANGED <<store, invoked>>]_vars

C4_Witness ==
    \E e \in Runs : run[e].pc = "done" /\ run[e].proc.fail /\ run[e].res = nil
                    /\ workflows[run[e].wf] = "completed"

\* C5: when the Procedure returns nil, Execute returns nil and the workflow is
\* completed; when it returns an error, Execute returns that error wrapped and
\* the workflow is failed.
C5_ExecuteOutcome ==
    [][\A e \in Runs : (run[e].pc = "proc" /\ run'[e].pc = "done") =>
          LET err == thr[e][MainThread].err
              res == run'[e].res
          IN  IF err = nil
              THEN res = nil /\ workflows'[run[e].wf] = "completed"
              ELSE /\ res # nil /\ SubSeq(res, 2, Len(res)) = err
                   /\ workflows'[run[e].wf] = "failed"]_vars

C5_Witness ==
    /\ \E e \in Runs : run[e].pc = "done" /\ run[e].res # nil
                       /\ workflows[run[e].wf] = "failed"
    /\ \E e \in Runs : run[e].pc = "done" /\ run[e].res = nil /\ ~run[e].proc.fail
                       /\ <<e, idb, TRUE>> \in invoked
                       /\ workflows[run[e].wf] = "completed"

\* C6: every Step call for a StepID of a workflow, in any Execute, uses the
\* same SequenceNum.
C6_SequenceStable ==
    \A x \in assigned, y \in assigned : (x[1] = y[1] /\ x[2] = y[2]) => x[3] = y[3]

\* C7: within a workflow no two distinct StepIDs are ever given the same
\* SequenceNum, over all Execute calls.
C7_SequenceUnique ==
    \A x \in assigned, y \in assigned : (x[1] = y[1] /\ x[3] = y[3]) => x[2] = y[2]

\* C8: in the only Execute of a workflow, N branches with distinct StepIDs whose
\* Bodies all succeed: once ctx.Wait has returned, the cache holds N entries,
\* the N SequenceNums differ, each Body has run once and the Procedure returns
\* nil; and Execute ends with the workflow completed.
DistinctBranches(p) ==
    /\ Len(p.branches) > 0
    /\ \A i \in DOMAIN p.branches, j \in DOMAIN p.branches :
          i # j => p.branches[i] # p.branches[j]
OnlyRunOn(e) == \A r \in Runs \ {e} : run[r].pc = "idle" \/ run[r].wf # run[e].wf

C8_ConcurrencySafety ==
    \A e \in Runs :
        (DistinctBranches(run[e].proc) /\ OnlyRunOn(e) /\ ~BodyFailedIn(e)) =>
        LET b == run[e].proc.branches IN
        /\ InStep(e, MainThread, "ret") =>
              /\ Cardinality(DOMAIN ctx[e].completedSteps) = Len(b)
              /\ \A i \in DOMAIN b : b[i] \in DOMAIN ctx[e].stepIDToSeq
              /\ \A i \in DOMAIN b, j \in DOMAIN b :
                    i # j => ctx[e].stepIDToSeq[b[i]] # ctx[e].stepIDToSeq[b[j]]
              /\ \A i \in DOMAIN b : bodyOk[run[e].wf][b[i]] = 1
              /\ thr[e][MainThread].err = nil
        /\ run[e].pc = "done" =>
              /\ run[e].res = nil /\ workflows[run[e].wf] = "completed"
              /\ \A i \in DOMAIN b : bodyOk[run[e].wf][b[i]] = 1

C8_Witness ==
    \E e \in Runs : /\ DistinctBranches(run[e].proc) /\ OnlyRunOn(e) /\ ~BodyFailedIn(e)
                    /\ InStep(e, MainThread, "ret")
                    /\ Cardinality(DOMAIN ctx[e].completedSteps) = 2

\* C9: a step record changes only by a Step call of the workflow it belongs to,
\* and SaveStep in a workflow leaves a completed record of that workflow.
C9_WorkflowIsolation ==
    [][/\ \A k \in DOMAIN steps : steps'[k] # steps[k] =>
              \E e \in DOMAIN thr : /\ (e \notin DOMAIN thr' \/ thr'[e] # thr[e])
                                     /\ run[e].wf = steps[k].workflow_id
       /\ \A e \in Runs, t \in Threads :
              (InStep(e, t, "save") /\ e \in DOMAIN thr' /\ thr'[e][t].pc = "store") =>
                  /\ CurKey(e, t) \in DOMAIN steps'
                  /\ steps'[CurKey(e, t)].workflow_id = run[e].wf
                  /\ steps'[CurKey(e, t)].status = "completed"]_vars

\* C10: ctx.Wait returns only when every branch has returned, and returns the
\* error of the first branch that returned one, nil when none did.
FirstError(errs) ==
    LET bad == {i \in DOMAIN errs : errs[i] # nil}
    IN  IF bad = {} THEN nil ELSE errs[CHOOSE i \in bad : \A j \in bad : i <= j]

C10_JoinBarrier ==
    [][\A e \in Runs : (InStep(e, MainThread, "wait") /\ e \in DOMAIN thr'
                            /\ thr'[e][MainThread].pc = "ret") =>
          /\ \A j \in BranchesOf(e) : thr[e][j].pc = "ret"
          /\ Len(joined[e]) = Len(run[e].proc.branches)
          /\ thr'[e][MainThread].err = FirstError(joined[e])]_vars

C10_Witness ==
    \E e \in Runs : /\ InStep(e, MainThread, "ret")
                    /\ Len(joined[e]) = 2
                    /\ joined[e][1] # nil /\ joined[e][2] # nil
                    /\ joined[e][1] # joined[e][2]
                    /\ thr[e][MainThread].err = joined[e][1]

\* C11: a Step call is served from memo (the cache, or the record GetStep
\* returns) only while the record of its workflow and StepKey is completed;
\* when GetStep finds no completed record the call goes on to run the Body.
MemoHit(e, t) == InStep(e, t, "cache") /\ CurKey(e, t) \in DOMAIN ctx[e].completedSteps

C11_OnlyCompletedMemoize ==
    [][\A e \in Runs, t \in Threads :
        LET r == GetStep(steps, run[e].wf, CurKey(e, t))
            moves == e \in DOMAIN thr' /\ thr'[e][t] # thr[e][t]
        IN  /\ (MemoHit(e, t) /\ moves) => r.found
            /\ (InStep(e, t, "getstep") /\ moves) =>
                  thr'[e][t].pc = (IF r.found THEN "fill" ELSE "mark")]_vars

\* C12: when the Body returns an error, Step returns that very error, the Body
\* is not invoked again, the record of the workflow and StepKey is failed with
\* the error message, and the cache is left as it was.
C12_StepFailure ==
    [][\A e \in Runs, t \in Threads :
        (InStep(e, t, "saveerr") /\ e \in DOMAIN thr' /\ thr'[e][t] # thr[e][t]) =>
            /\ thr[e][t].err = BodyError(CurID(e, t))
            /\ thr'[e][t] = Ret(thr[e][t].err)
            /\ UNCHANGED invoked
            /\ ctx'[e].completedSteps = ctx[e].completedSteps
            /\ CurKey(e, t) \in DOMAIN steps'
            /\ steps'[CurKey(e, t)].workflow_id = run[e].wf
            /\ steps'[CurKey(e, t)].status = "failed"
            /\ steps'[CurKey(e, t)].error = thr[e][t].err]_vars

\* ---------------------------------------------------------------- step keys
\* Step ids up to MaxIDLen characters, the separator and digits among them,
\* and sequence numbers up to MaxSeqNum (two digits and more).
MaxIDLen == 2
MaxSeqNum == 12
KeyChars == {"a", ":", "1"}
KeyIDs == UNION {[1..n -> KeyChars] : n \in 0..MaxIDLen}
KeySeqNums == 0..MaxSeqNum

\* Step's key for (id, seqNum) and the marker written under it, for two calls.
StepKeyMark(w, id, seqNum) ==
    /\ Cardinality(assigned) < 2
    /\ <<w, id, seqNum>> \notin assigned
    /\ assigned' = assigned \cup {<<w, id, seqNum>>}
    /\ steps' = MarkStepInProgress(steps, w, generateStepKey(id, seqNum), id, seqNum)
    /\ UNCHANGED <<workflows, run, ctx, thr, bodyOk, okRet, invoked, joined>>
    /\ UNCHANGED retry

NextKey == \E id \in KeyIDs, n \in KeySeqNums : StepKeyMark("w1", id, n)

SpecKey == Init /\ [][NextKey]_vars

\* C13: generateStepKey gives equal keys only for equal step ids and equal
\* sequence numbers, step ids with the separator included; so every pair
\* has a row of its own.
C13_KeysInjective ==
    /\ \A x \in assigned, y \in assigned :
          generateStepKey(x[2], x[3]) = generateStepKey(y[2], y[3]) =>
              x[2] = y[2] /\ x[3] = y[3]
    /\ \A x \in assigned :
          /\ generateStepKey(x[2], x[3]) \in DOMAIN steps
          /\ steps[generateStepKey(x[2], x[3])].step_id = x[2]
          /\ steps[generateStepKey(x[2], x[3])].sequence_num = x[3]

C13_Witness ==
    /\ <<"w1", <<":", "1">>, 2>> \in assigned
    /\ <<"w1", <<":">>, 12>> \in assigned
    /\ Cardinality(DOMAIN steps) = 2

\* C14: a Step call served from memo writes nothing to the store and invokes
\* no Body: the sequence assignment changes the Context only, a cache hit
\* changes nothing and returns, and a completed record found by GetStep is
\* added to the cache and returned.
Returned(e, t) ==
    /\ thr'[e][t].pc \notin {"cache", "getstep", "fill", "mark", "body", "save", "saveerr", "store"}
    /\ thr'[e][t].err = nil

C14_MemoHitReadOnly ==
    [][\A e \in Runs, t \in Threads :
        LET moves == e \in DOMAIN thr' /\ thr'[e][t] # thr[e][t]
            c == ctx[e]
        IN  /\ (InStep(e, t, "assign") /\ moves) => UNCHANGED <<store, bodyOk, invoked>>
            /\ (MemoHit(e, t) /\ moves) =>
                  /\ UNCHANGED <<store, bodyOk, invoked>>
                  /\ ctx'[e] = c
                  /\ Returned(e, t)
            /\ (InStep(e, t, "getstep") /\ GetStep(steps, run[e].wf, CurKey(e, t)).found
                    /\ moves) =>
                  /\ UNCHANGED <<store, bodyOk, invoked, ctx>>
                  /\ thr'[e][t].pc = "fill"
            /\ (InStep(e, t, "fill") /\ moves) =>
                  /\ UNCHANGED <<store, bodyOk, invoked>>
                  /\ ctx'[e] = [c EXCEPT !.completedSteps = Put(@, CurKey(e, t), thr[e][t].out)]
                  /\ Returned(e, t)]_vars

\* Both branches of a race on one step id have returned nil and one Body ran:
\* the other call was served from memo.
C14_Witness ==
    \E e \in Runs : /\ run[e].proc = ProcRace /\ OnlyRunOn(e)
                    /\ InStep(e, MainThread, "wait")
                    /\ \A j \in BranchesOf(e) : thr[e][j] = Ret(nil)
                    /\ bodyOk[run[e].wf][ida] = 1
                    /\ <<e, ida, FALSE>> \notin invoked
                    /\ Cardinality(DOMAIN ctx[e].completedSteps) = 1

\* ---------------------------------------------------------------- store failures
\* Number of Execute calls when statements on the store may fail.
MaxFailRuns == 2
FailRuns == 1..MaxFailRuns

\* The error of a statement the database could not run.
StoreError == <<"store failure">>
RootCause(err) == err[Len(err)]
StoreFailed(err) == err # nil /\ RootCause(err) = RootCause(StoreError)

\* Execute is called and CreateWorkflow fails: no Context is made.
ExecuteCreateFails(e, w, p) ==
    /\ \A r \in Runs : ~Active(r)
    /\ w = "w2" => workflows["w1"] # "none"
    /\ run[e].pc = "idle"
    /\ \A r \in Runs : r < e => run[r].pc # "idle"
    /\ run' = [run EXCEPT ![e] = [pc |-> "done", wf |-> w, proc |-> p,
                                  res |-> Wrap("failed to create workflow", StoreError),
                                  prior |-> {r \in Runs : Ended(r)}]]
    /\ UNCHANGED <<store, ctx, thr, history>>
    /\ UNCHANGED retry

\* GetWorkflowStatus fails.
ExecuteStatusFails(e) ==
    /\ run[e].pc = "status"
    /\ run' = [run EXCEPT ![e].pc = "done",
                          ![e].res = Wrap("failed to get workflow status", StoreError)]
    /\ Forget(e)
    /\ UNCHANGED <<store, bodyOk, okRet, assigned, invoked>>
    /\ UNCHANGED retry

\* One of newContext's three queries fails.
NewContextFails(e) ==
    /\ run[e].pc \in {"load_completed", "load_mapping", "load_max"}
    /\ run' = [run EXCEPT ![e].pc = "done",
                          ![e].res = Wrap("failed to create context",
                                          Wrap("failed to load", StoreError))]
    /\ Forget(e)
    /\ UNCHANGED <<store, bodyOk, okRet, assigned, invoked>>
    /\ UNCHANGED retry

\* GetStep, MarkStepInProgress or SaveStep fails: Step returns the error wrapped.
StepGetStepFails(e, t) ==
    /\ InStep(e, t, "getstep")
    /\ StepReturns(e, t, Wrap("failed to check step in database", StoreError), ctx[e])
    /\ UNCHANGED <<store, run, bodyOk, okRet, assigned, invoked>>
    /\ UNCHANGED retry

StepMarkFails(e, t) ==
    /\ InStep(e, t, "mark")
    /\ StepReturns(e, t, Wrap("failed to mark step in progress", StoreError), ctx[e])
    /\ UNCHANGED <<store, run, bodyOk, okRet, assigned, invoked>>
    /\ UNCHANGED retry

StepSaveFails(e, t) ==
    /\ InStep(e, t, "save")
    /\ StepReturns(e, t, Wrap("failed to save step", StoreError), ctx[e])
    /\ UNCHANGED <<store, run, bodyOk, okRet, assigned, invoked>>
    /\ UNCHANGED retry

\* SaveStepError fails: its error is dropped and Step returns the Body's error.
StepSaveErrorFails(e, t) ==
    /\ InStep(e, t, "saveerr")
    /\ StepReturns(e, t, thr[e][t].err, ctx[e])
    /\ UNCHANGED <<store, run, bodyOk, okRet, assigned, invoked>>
    /\ UNCHANGED retry

\* UpdateWorkflowStatus fails: the error is dropped after a failed workflowFn
\* and returned after a successful one.
ExecuteUpdateFails(e) ==
    /\ InStep(e, MainThread, "ret")
    /\ run' = [run EXCEPT ![e].pc = "done",
                          ![e].res = IF thr[e][MainThread].err # nil
                                     THEN ExecuteResult(thr[e][MainThread].err)
                                     ELSE Wrap("failed to mark workflow as completed",
                                               StoreError)]
    /\ Forget(e)
    /\ UNCHANGED <<store, bodyOk, okRet, assigned, invoked>>
    /\ UNCHANGED retry

StoreFails(e) ==
    \/ ExecuteStatusFails(e)
    \/ NewContextFails(e)
    \/ StepGetStepFails(e, MainThread)
    \/ StepMarkFails(e, MainThread)
    \/ StepSaveFails(e, MainThread)
    \/ StepSaveErrorFails(e, MainThread)
    \/ ExecuteUpdateFails(e)

NextFail ==
    \/ \E e \in FailRuns, w \in WorkflowIDs : ExecuteAlone(e, w, ProcSeq)
    \/ \E e \in FailRuns, w \in WorkflowIDs : ExecuteCreateFails(e, w, ProcSeq)
    \/ \E e \in FailRuns : EngineNext(e)
    \/ \E e \in FailRuns : StepNext(e, MainThread)
    \/ \E e \in FailRuns : StoreFails(e)

SpecFail == Init /\ [][NextFail]_vars

\* C15: an Execute of a workflow that has a record, ended by a failed store
\* statement, has returned an error and leaves the status running.
C15_StoreFailureLeavesRunning ==
    \A e \in Runs :
        (run[e].pc = "done" /\ StoreFailed(run[e].res) /\ workflows[run[e].wf] # "none") =>
            workflows[run[e].wf] = "running"

\* ---------------------------------------------------------------- step id misuse
\* Number of Execute calls of the Procedure that misuses step ids.
MaxMisuseRuns == 2
MisuseRuns == 1..MaxMisuseRuns

NextMisuse ==
    \/ \E e \in MisuseRuns, w \in WorkflowIDs : ExecuteAlone(e, w, ProcMisuse)
    \/ \E e \in MisuseRuns : EngineNext(e)
    \/ \E e \in MisuseRuns : StepNext(e, MainThread)

SpecMisuse == Init /\ [][NextMisuse]_vars

ValidStepID(id) == id # <<>> /\ \A i \in DOMAIN id : id[i] # ":"

\* C16: a Step call with an empty step id or one that holds the separator is
\* given no sequence number, writes no record, invokes no Body and returns no
\* result.
C16_MisuseRejected ==
    /\ \A x \in assigned : ValidStepID(x[2])
    /\ \A k \in DOMAIN steps : ValidStepID(steps[k].step_id)
    /\ \A x \in invoked : ValidStepID(x[2])
    /\ \A x \in okRet : ValidStepID(x.id)

\* ---------------------------------------------------------------- codec failures
\* Number of Execute calls of Procedures with result types of their own.
MaxCodecRuns == 2
CodecRuns == 1..MaxCodecRuns

NextCodec ==
    \/ \E e \in CodecRuns, p \in CodecProcedures : ExecuteAlone(e, "w1", p)
    \/ \E e \in CodecRuns : EngineNext(e)
    \/ \E e \in CodecRuns, t \in Threads : StepNext(e, t)
    \/ \E e \in CodecRuns, t \in Threads : StepFill(e, t)
    \/ \E e \in CodecRuns : Go(e)
    \/ \E e \in CodecRuns : Wait(e)

SpecCodec == Init /\ [][NextCodec]_vars

CodecFailed(err) == err # nil /\ err[Len(err)] = CodecError[1]

\* C17: when the Body's result cannot be encoded, or a memoized output (in the
\* cache or read by GetStep) cannot be decoded, Step returns an error, the
\* call leaves the step records as they are and adds nothing to the cache.
C17_CodecFailure ==
    [][\A e \in Runs, t \in Threads :
        LET moves == e \in DOMAIN thr' /\ thr'[e][t] # thr[e][t]
            fails == /\ thr'[e][t].pc = "ret"
                     /\ CodecFailed(thr'[e][t].err)
                     /\ UNCHANGED steps
                     /\ ctx'[e].completedSteps = ctx[e].completedSteps
        IN  /\ (InStep(e, t, "body") /\ moves /\ bodyOk' # bodyOk
                    /\ ~Encodable(CurType(e, t))) => fails
            /\ (MemoHit(e, t) /\ moves
                    /\ ~Decodable(ctx[e].completedSteps[CurKey(e, t)], CurType(e, t))) => fails
            /\ (InStep(e, t, "fill") /\ moves
                    /\ ~Decodable(thr[e][t].out, CurType(e, t))) => fails]_vars

\* An Execute ended by an encoding failure, then one ended by the failure to
\* decode a record read by GetStep.
C17_Witness ==
    /\ run[1].pc = "done" /\ run[1].proc = ProcChan
    /\ run[1].res = <<"workflow execution failed", "failed to marshal result", CodecError[1]>>
    /\ run[2].pc = "done" /\ run[2].proc = ProcRaceTyped
    /\ run[2].res = <<"workflow execution failed", "failed to unmarshal database result",
                      CodecError[1]>>

\* C18: GetWorkflowStatus returns an error for a workflow id no Execute was
\* called on; once an Execute of the id has got past CreateWorkflow it returns
\* the status in the record, without error; and a record is never deleted.
NeverCalled(w) == \A e \in Runs : run[e].pc = "idle" \/ run[e].wf # w
Created(w) ==
    \E e \in Runs : /\ run[e].pc # "idle" /\ run[e].wf = w
                    /\ run[e].res # Wrap("failed to create workflow", StoreError)

C18_GetWorkflowStatus ==
    /\ [](\A w \in WorkflowIDs :
            /\ NeverCalled(w) => GetWorkflowStatus(workflows, w).err # nil
            /\ Created(w) =>
                  /\ GetWorkflowStatus(workflows, w).err = nil
                  /\ GetWorkflowStatus(workflows, w).status = workflows[w]
                  /\ workflows[w] \in {"running", "completed", "failed"})
    /\ [][\A w \in WorkflowIDs : workflows[w] # "none" => workflows'[w] # "none"]_vars

C18_Witness ==
    /\ NeverCalled("w2") /\ GetWorkflowStatus(workflows, "w2").err # nil
    /\ Created("w1") /\ GetWorkflowStatus(workflows, "w1").status = "failed"
    /\ \E e \in Runs : run[e].res = Wrap("failed to create workflow", StoreError)

\* C19: two branches of the only Execute of a workflow call Step with one
\* step id: both use one sequence number, the Body is invoked once, and both
\* calls return the same result.
C19_SameStepRace ==
    \A e \in Runs :
        (run[e].proc = ProcRace /\ OnlyRunOn(e)) =>
            /\ \A x \in assigned, y \in assigned :
                  (x[1] = run[e].wf /\ y[1] = run[e].wf /\ x[2] = y[2]) => x[3] = y[3]
            /\ bodyOk[run[e].wf][ida] <= 1
            /\ ~(<<e, ida, TRUE>> \in invoked /\ <<e, ida, FALSE>> \in invoked)
            /\ \A x \in okRet, y \in okRet : (x.run = e /\ y.run = e) => x.out = y.out

\* C20: a step record that is completed keeps its status and its output.
C20_CompletedImmutable ==
    [][\A k \in DOMAIN steps :
          steps[k].status = "completed" =>
              /\ k \in DOMAIN steps'
              /\ steps'[k].status = "completed"
              /\ steps'[k].output = steps[k].output]_vars

\* ---------------------------------------------------------------- join and siblings
\* C21: ctx.Wait returns as soon as the first branch has returned an error: once
\* a branch error is recorded in the group, the Procedure blocked in ctx.Wait can
\* go on, whether or not the other branches have returned.
C21_JoinReturnsEarly ==
    \A e \in DOMAIN thr :
        (InStep(e, MainThread, "wait") /\ ctx[e].egErr # nil) => ENABLED Wait(e)

\* C22: a branch error does not stop the sibling branches.  With distinct
\* StepIDs: ctx.Wait returns the error only when every branch has returned; when
\* Execute then returns that error, every Step of the run that returned a result
\* has left a completed record of the workflow with that output; and no later
\* Execute of the workflow invokes the Body of such a step again.
C22_SiblingsRunToCompletion ==
    [][\A e \in DOMAIN thr : DistinctBranches(run[e].proc) =>
          /\ (InStep(e, MainThread, "wait") /\ ctx[e].egErr # nil
                  /\ e \in DOMAIN thr' /\ thr'[e][MainThread].pc = "ret") =>
                \A j \in BranchesOf(e) : thr[e][j].pc = "ret"
          /\ (InStep(e, MainThread, "ret") /\ ctx[e].egErr # nil /\ run'[e].pc = "done") =>
                \A x \in okRet : x.run = e =>
                    GetStep(steps, run[e].wf, x.key) = [found |-> TRUE, output |-> x.out]
          /\ \A t \in Threads : (InStep(e, t, "body") /\ invoked' # invoked) =>
                ~\E x \in okRet : /\ x.run \in run[e].prior /\ x.wf = run[e].wf
                                  /\ x.id = CurID(e, t)
                                  /\ run[x.run].pc = "done" /\ run[x.run].res # nil]_vars

\* ---------------------------------------------------------------- marker and fields
\* The record of the workflow under the step key of the call, if there is one.
MarkerPresent(tbl, e, t) ==
    /\ CurKey(e, t) \in DOMAIN tbl
    /\ tbl[CurKey(e, t)].workflow_id = run[e].wf
    /\ tbl[CurKey(e, t)].status = "in_progress"
    /\ tbl[CurKey(e, t)].step_id = CurID(e, t)
    /\ tbl[CurKey(e, t)].sequence_num = thr[e][t].seqNum

\* C23: a Step call reaches its Body only from the marker write, and then the
\* store holds an in_progress record of this workflow under the step key, with
\* the StepID and SequenceNum, which is still there when the Body is invoked;
\* when the marker write fails the Body is not invoked and Step returns the
\* error.
C23_MarkerBeforeBody ==
    [][\A e \in DOMAIN thr, t \in Threads :
          /\ (e \in DOMAIN thr' /\ thr'[e][t].pc = "body" /\ thr[e][t].pc # "body") =>
                thr[e][t].pc = "mark" /\ MarkerPresent(steps', e, t)
          /\ (InStep(e, t, "body") /\ invoked' # invoked) => MarkerPresent(steps, e, t)
          /\ (InStep(e, t, "mark") /\ e \in DOMAIN thr' /\ thr'[e][t].pc # "mark"
                  /\ thr'[e][t].pc # "body") =>
                /\ thr'[e][t] = Ret(Wrap("failed to mark step in progress", StoreError))
                /\ invoked' = invoked]_vars

\* C24: every step record has an output exactly when its status is completed
\* and an error message exactly when its status is failed.
C24_RecordFields ==
    \A k \in DOMAIN steps :
        /\ steps[k].output # NULL <=> steps[k].status = "completed"
        /\ steps[k].error # NULL <=> steps[k].status = "failed"

\* ---------------------------------------------------------------- hydration
\* C25: when newContext has run its three queries with no other Execute in
\* progress, the Context's stepIDToSeq holds exactly the (step_id, sequence_num)
\* pairs of the workflow's records of any status, completedSteps exactly the
\* (step_key, output) pairs of its completed records, and sequenceNum is the
\* largest sequence_num of its records, 0 when it has none.
C25_Hydration ==
    [][\A e \in Runs : (run[e].pc = "load_max" /\ run'[e].pc = "proc") =>
          LET c == ctx'[e]
              rows == {k \in DOMAIN steps : steps[k].workflow_id = run[e].wf}
          IN  /\ {<<id, c.stepIDToSeq[id]>> : id \in DOMAIN c.stepIDToSeq} =
                     {<<steps[k].step_id, steps[k].sequence_num>> : k \in rows}
              /\ DOMAIN c.completedSteps = {k \in rows : steps[k].status = "completed"}
              /\ \A k \in DOMAIN c.completedSteps : c.completedSteps[k] = steps[k].output
              /\ \A k \in rows : steps[k].sequence_num <= c.sequenceNum
              /\ IF rows = {} THEN c.sequenceNum = 0
                 ELSE \E k \in rows : steps[k].sequence_num = c.sequenceNum]_vars

C25_Witness ==
    \E e \in Runs :
        /\ InStep(e, MainThread, "assign") /\ thr[e][MainThread].ip = 1
        /\ ctx[e].sequenceNum = 2 /\ assigned = {<<"w1", ida, 1>>, <<"w1", idb, 2>>}
        /\ DOMAIN ctx[e].completedSteps = {generateStepKey(ida, 1)}
        /\ DOMAIN ctx[e].stepIDToSeq = {ida, idb}
        /\ \E k \in DOMAIN steps : steps[k].workflow_id = run[e].wf
                                    /\ steps[k].status = "failed"

\* ---------------------------------------------------------------- ordinal numbering
\* The Execute call is the first one of its workflow.
FirstOn(e) == run[e].pc # "idle" /\ \A r \in run[e].prior : run[r].wf # run[e].wf

\* C26: in the first Execute of a workflow, with a Procedure of sequential Step
\* calls on distinct StepIDs, the k-th Step call works with SequenceNum k and the
\* step key "StepID:k"; when that Execute has returned nil each Body has run
\* exactly once, and a later Execute of the workflow invokes no Body.
C26_OrdinalNumbering ==
    \A e \in Runs : (FirstOn(e) /\ Len(run[e].proc.branches) = 0) =>
        /\ \A k \in 1..Len(run[e].proc.main) :
              (run[e].pc = "proc" /\ thr[e][MainThread].ip = k
                  /\ thr[e][MainThread].pc \notin {"assign", "ret"}) =>
                    /\ thr[e][MainThread].seqNum = k
                    /\ CurKey(e, MainThread) =
                           run[e].proc.main[k] \o <<":", <<"1", "2", "3">>[k]>>
        /\ (run[e].pc = "done" /\ run[e].res = nil) =>
              /\ \A k \in 1..Len(run[e].proc.main) :
                    bodyOk[run[e].wf][run[e].proc.main[k]] = 1
              /\ \A r \in Runs, id \in StepIDs, ok \in BOOLEAN :
                    (r # e /\ run[r].pc # "idle" /\ run[r].wf = run[e].wf) =>
                        <<r, id, ok>> \notin invoked

C26_Witness ==
    \E e \in Runs, r \in Runs :
        /\ FirstOn(e) /\ run[e].pc = "done" /\ run[e].res = nil /\ run[e].wf = "w2"
        /\ run[e].proc = ProcSeq /\ bodyOk["w2"][idb] = 1
        /\ e \in run[r].prior /\ run[r].wf = "w2" /\ run[r].pc = "done"

\* ---------------------------------------------------------------- retryOnBusy
\* Number of store writes made, each through retryOnBusy.
MaxRetryCalls == 2

maxRetries == 5

\* What the database may answer to one attempt of a statement besides nil.
BusyError == <<"SQLITE_BUSY">>
LockedError == <<"database is locked">>
AttemptErrors == {BusyError, LockedError, StoreError}

\* Every error is taken for a busy error.
isSQLiteBusyAny(err) == err # nil

\* strings.Contains(err.Error(), "SQLITE_BUSY" / "database is locked").
isSQLiteBusy(err) ==
    err # nil /\ \E j \in DOMAIN err : err[j] \in {"SQLITE_BUSY", "database is locked"}

\* The store writes, all of them s.retryOnBusy(func() error {...}).
StoreWrites ==
    {"CreateWorkflow", "UpdateWorkflowStatus", "MarkStepInProgress", "SaveStep",
     "SaveStepError"}

\* The statement of write op runs: workflow w1, step a with sequence number 1.
WriteApplied(op) ==
    /\ workflows' = CASE op = "CreateWorkflow" -> CreateWorkflow(workflows, "w1")
                      [] op = "UpdateWorkflowStatus" ->
                             UpdateWorkflowStatus(workflows, "w1", "completed")
                      [] OTHER -> workflows
    /\ steps' = CASE op = "MarkStepInProgress" ->
                         MarkStepInProgress(steps, "w1", generateStepKey(ida, 1), ida, 1)
                  [] op = "SaveStep" ->
                         SaveStep(steps, "w1", generateStepKey(ida, 1), Marshal(1))
                  [] op = "SaveStepError" ->
                         SaveStepError(steps, "w1", generateStepKey(ida, 1), BodyError(ida))
                  [] OTHER -> steps

\* A store write is called: retryOnBusy starts with i = 0.
RetryCall(op) ==
    /\ retry.pc \in {"idle", "returned"}
    /\ retry.calls < MaxRetryCalls
    /\ retry' = [NoRetry EXCEPT !.pc = "loop", !.op = op, !.calls = retry.calls + 1]
    /\ UNCHANGED <<store, run, ctx, thr, history>>

\* One turn of the loop: err = fn(), return on nil and on an error that is
\* not busy, else sleep and i++.
RetryAttempt(err) ==
    /\ retry.pc = "loop"
    /\ retry.i < maxRetries
    /\ IF err = nil
       THEN /\ WriteApplied(retry.op)
            /\ retry' = [retry EXCEPT !.pc = "returned", !.err = err, !.ret = nil,
                                      !.seen = Append(@, err)]
       ELSE /\ UNCHANGED store
            /\ IF ~isSQLiteBusy(err)
               THEN retry' = [retry EXCEPT !.pc = "returned", !.err = err, !.ret = err,
                                           !.seen = Append(@, err)]
               ELSE retry' = [retry EXCEPT !.i = @ + 1, !.err = err,
                                           !.seen = Append(@, err)]
    /\ UNCHANGED <<run, ctx, thr, history>>

\* The loop is over: the last busy error is returned wrapped.
RetryExhausted ==
    /\ retry.pc = "loop"
    /\ ~(retry.i < maxRetries)
    /\ retry' = [retry EXCEPT !.pc = "returned",
                              !.ret = Wrap("max retries exceeded", retry.err)]
    /\ UNCHANGED <<store, run, ctx, thr, history>>

NextRetry ==
    \/ \E op \in StoreWrites : RetryCall(op)
    \/ \E err \in {nil} \cup AttemptErrors : RetryAttempt(err)
    \/ RetryExhausted

\* fn() returns and time.Sleep ends: the loop always takes its next turn.
SpecRetry == Init /\ [][NextRetry]_vars /\ WF_vars(NextRetry)

\* C27: a store write makes at most maxRetries attempts and returns: nil at the
\* first attempt that succeeds, whatever busy errors came before; an error
\* that is not busy at once and as it is; an error after maxRetries busy errors
\* in a row and only then.  The store changes only by the attempt that succeeds.
C27_BoundedRetry ==
    /\ [](LET n == Len(retry.seen) IN
          /\ n <= maxRetries
          /\ \A j \in 1..(n - 1) : retry.seen[j] \in {BusyError, LockedError}
          /\ retry.pc = "loop" => (n = 0 \/ retry.seen[n] \in {BusyError, LockedError})
          /\ retry.pc = "returned" =>
                /\ n >= 1
                /\ retry.seen[n] = nil => retry.ret = nil
                /\ retry.seen[n] = StoreError => retry.ret = StoreError
                /\ retry.seen[n] \in {BusyError, LockedError} =>
                      /\ n = maxRetries
                      /\ retry.ret = <<"max retries exceeded">> \o retry.seen[n])
    /\ [][store' # store => (Len(retry'.seen) = Len(retry.seen) + 1
                             /\ retry'.seen[Len(retry'.seen)] = nil)]_vars
    /\ (retry.pc = "loop" ~> retry.pc = "returned")

C27_Witness ==
    /\ retry.pc = "returned" /\ retry.op = "SaveStep" /\ retry.ret = nil
    /\ Len(retry.seen) = maxRetries
    /\ \E k \in DOMAIN steps : steps[k].status = "completed"

\* ---------------------------------------------------------------- ctx.mu
\* Number of Execute calls when Step is followed statement by statement through
\* its four critical sections; ctx.mu is the set of goroutines holding it.
MaxLockRuns == 2
LockRuns == 1..MaxLockRuns

\* Where Step calls ctx.mu.Lock(), and where it is between Lock and Unlock.
LockPoints == {"assign", "cache", "fill", "store"}
Locked(pc) == CASE pc = "assign" -> "assign_cs" [] pc = "cache" -> "cache_cs"
                [] pc = "fill" -> "fill_cs" [] pc = "store" -> "store_cs"
SectionPoints == {"assign_cs", "assign_add", "assign_unlock", "cache_cs", "cache_unlock",
                  "fill_cs", "fill_unlock", "store_cs", "store_unlock"}

\* Lock() is entered without waiting for the holder.
MuLockNoWait(e, t) ==
    /\ run[e].pc = "proc" /\ thr[e][t].pc \in LockPoints
    /\ ctx' = [ctx EXCEPT ![e].mu = @ \cup {t}]
    /\ thr' = [thr EXCEPT ![e][t].pc = Locked(thr[e][t].pc)]
    /\ UNCHANGED <<store, run, history, retry>>

\* ctx.mu.Lock(): blocks while another goroutine holds the mutex.
MuLock(e, t) ==
    /\ run[e].pc = "proc" /\ thr[e][t].pc \in LockPoints
    /\ ctx[e].mu = {}
    /\ ctx' = [ctx EXCEPT ![e].mu = {t}]
    /\ thr' = [thr EXCEPT ![e][t].pc = Locked(thr[e][t].pc)]
    /\ UNCHANGED <<store, run, history, retry>>

\* seqNum, exists := ctx.stepIDToSeq[id]
LookupSeq(e, t) ==
    /\ InStep(e, t, "assign_cs")
    /\ thr' = IF CurID(e, t) \in DOMAIN ctx[e].stepIDToSeq
              THEN [thr EXCEPT ![e][t].pc = "assign_unlock",
                               ![e][t].seqNum = ctx[e].stepIDToSeq[CurID(e, t)]]
              ELSE [thr EXCEPT ![e][t].pc = "assign_add"]
    /\ UNCHANGED <<store, run, ctx, history, retry>>

\* seqNum = atomic.AddInt64(&ctx.sequenceNum, 1); ctx.stepIDToSeq[id] = seqNum
AddSeq(e, t) ==
    /\ InStep(e, t, "assign_add")
    /\ ctx' = [ctx EXCEPT ![e].sequenceNum = @ + 1,
                          ![e].stepIDToSeq = Put(@, CurID(e, t), ctx[e].sequenceNum + 1)]
    /\ thr' = [thr EXCEPT ![e][t].pc = "assign_unlock",
                          ![e][t].seqNum = ctx[e].sequenceNum + 1]
    /\ UNCHANGED <<store, run, history, retry>>

\* cached, ok := ctx.completedSteps[stepKey]: without an entry cached is nil.
ReadCache(e, t) ==
    /\ InStep(e, t, "cache_cs")
    /\ thr' = [thr EXCEPT ![e][t].pc = "cache_unlock",
                          ![e][t].out = IF CurKey(e, t) \in DOMAIN ctx[e].completedSteps
                                        THEN ctx[e].completedSteps[CurKey(e, t)]
                                        ELSE NULL]
    /\ UNCHANGED <<store, run, ctx, history, retry>>

\* ctx.completedSteps[stepKey] = output
WriteCache(e, t) ==
    /\ run[e].pc = "proc" /\ thr[e][t].pc \in {"fill_cs", "store_cs"}
    /\ ctx' = [ctx EXCEPT ![e].completedSteps = Put(@, CurKey(e, t), thr[e][t].out)]
    /\ thr' = [thr EXCEPT ![e][t].pc = IF thr[e][t].pc = "fill_cs" THEN "fill_unlock"
                                       ELSE "store_unlock"]
    /\ UNCHANGED <<store, run, history, retry>>

\* ctx.mu.Unlock() after the sequence number, and after the cache lookup.
MuUnlock(e, t) ==
    /\ run[e].pc = "proc" /\ thr[e][t].pc \in {"assign_unlock", "cache_unlock"}
    /\ ctx' = [ctx EXCEPT ![e].mu = @ \ {t}]
    /\ thr' = [thr EXCEPT ![e][t].pc = IF thr[e][t].pc = "assign_unlock" THEN "cache"
                                       ELSE "cached"]
    /\ assigned' = IF thr[e][t].pc = "assign_unlock"
                   THEN assigned \cup {<<run[e].wf, CurID(e, t), thr[e][t].seqNum>>}
                   ELSE assigned
    /\ UNCHANGED <<store, run, bodyOk, okRet, invoked, joined, retry>>

\* if ok: the cached result is returned; else Step goes on to the database.
CacheResult(e, t) ==
    /\ InStep(e, t, "cached")
    /\ IF thr[e][t].out # NULL
       THEN /\ StepReturns(e, t, nil, ctx[e])
            /\ okRet' = okRet \cup {OkRecord(e, t, thr[e][t].out)}
       ELSE /\ thr' = [thr EXCEPT ![e][t].pc = "getstep"]
            /\ UNCHANGED <<ctx, okRet, joined>>
    /\ UNCHANGED <<store, run, bodyOk, assigned, invoked, retry>>

\* ctx.mu.Unlock() after the cache write: Step returns the result.
MuUnlockReturn(e, t) ==
    /\ run[e].pc = "proc" /\ thr[e][t].pc \in {"fill_unlock", "store_unlock"}
    /\ StepReturns(e, t, nil, [ctx[e] EXCEPT !.mu = @ \ {t}])
    /\ okRet' = okRet \cup {OkRecord(e, t, thr[e][t].out)}
    /\ UNCHANGED <<store, run, bodyOk, assigned, invoked, retry>>

\* One workflow; Step's store statements and Body as in the other
\* specifications, its accesses to the Context one by one.
NextLock ==
    \/ \E e \in LockRuns, p \in ParProcedures : ExecuteAlone(e, "w1", p)
    \/ \E e \in LockRuns : EngineNext(e)
    \/ \E e \in LockRuns, t \in Threads : MuLock(e, t)
    \/ \E e \in LockRuns, t \in Threads : LookupSeq(e, t)
    \/ \E e \in LockRuns, t \in Threads : AddSeq(e, t)
    \/ \E e \in LockRuns, t \in Threads : ReadCache(e, t)
    \/ \E e \in LockRuns, t \in Threads : WriteCache(e, t)
    \/ \E e \in LockRuns, t \in Threads : MuUnlock(e, t)
    \/ \E e \in LockRuns, t \in Threads : CacheResult(e, t)
    \/ \E e \in LockRuns, t \in Threads : MuUnlockReturn(e, t)
    \/ \E e \in LockRuns, t \in Threads :
          \/ StepGetStep(e, t)
          \/ StepMark(e, t)
          \/ StepBodyOk(e, t)
          \/ StepBodyError(e, t)
          \/ StepSaveError(e, t)
          \/ StepSave(e, t)
    \/ \E e \in LockRuns : Go(e)
    \/ \E e \in LockRuns : Wait(e)

SpecLock == Init /\ [][NextLock]_vars

\* C28: a goroutine between Lock and Unlock in Step holds ctx.mu, and no two
\* goroutines are there at once; while the Procedure runs, sequenceNum,
\* stepIDToSeq and completedSteps change only by a step of the goroutine
\* holding ctx.mu; and from the lookup
\* of an unseen StepID to the assignment of its number no other goroutine
\* changes the counter or the map.
C28_NoDataRace ==
    /\ [](\A e \in DOMAIN thr :
            /\ \A t \in Threads : thr[e][t].pc \in SectionPoints => ctx[e].mu = {t}
            /\ \A t \in Threads, u \in Threads :
                  (thr[e][t].pc \in SectionPoints /\ thr[e][u].pc \in SectionPoints) => t = u)
    /\ [][\A e \in DOMAIN thr : (e \in DOMAIN thr' /\ run[e].pc = "proc") =>
            /\ (\/ ctx'[e].sequenceNum # ctx[e].sequenceNum
                \/ ctx'[e].stepIDToSeq # ctx[e].stepIDToSeq
                \/ ctx'[e].completedSteps # ctx[e].completedSteps) =>
                  \E t \in ctx[e].mu : /\ thr[e][t].pc \in SectionPoints
                                       /\ thr'[e][t] # thr[e][t]
            /\ \A t \in Threads :
                  (thr[e][t].pc \in {"assign_cs", "assign_add"} /\ thr'[e][t] = thr[e][t]) =>
                      /\ ctx'[e].sequenceNum = ctx[e].sequenceNum
                      /\ ctx'[e].stepIDToSeq = ctx[e].stepIDToSeq]_vars

C28_Witness ==
    \E e \in DOMAIN thr :
        /\ thr[e][1].pc = "assign_add" /\ ctx[e].mu = {1}
        /\ thr[e][2].pc = "assign" /\ CurID(e, 2) = CurID(e, 1)
        /\ thr[e][MainThread].pc = "wait"

\* ---------------------------------------------------------------- cache coherence
\* C29: every entry of a Context's completedSteps has a record of the Context's
\* workflow under its step key, completed and with the same output.
C29_CacheCoherence ==
    \A e \in DOMAIN ctx : \A k \in DOMAIN ctx[e].completedSteps :
        /\ k \in DOMAIN steps
        /\ steps[k].workflow_id = run[e].wf
        /\ steps[k].status = "completed"
        /\ steps[k].output = ctx[e].completedSteps[k]

\* ---------------------------------------------------------------- overlapping Executes
\* Number of Execute calls that may run at the same time on one workflow.
MaxOverlapRuns == 2
OverlapRuns == 1..MaxOverlapRuns

\* Execute is called while earlier calls for the workflow are still running,
\* each with its own Context.
NextOverlap ==
    \/ \E e \in OverlapRuns, p \in SeqProcedures : Execute(e, "w1", p)
    \/ \E e \in OverlapRuns : EngineNext(e)
    \/ \E e \in OverlapRuns : StepNext(e, MainThread)
    \/ \E e \in OverlapRuns : StepFill(e, MainThread)

SpecOverlap == Init /\ [][NextOverlap]_vars

\* C30: a workflow whose status is completed keeps that status, whatever Execute
\* calls run, one after the other or at the same time.
C30_CompletedAbsorbing ==
    [][\A w \in WorkflowIDs : workflows[w] = "completed" => workflows'[w] = "completed"]_vars

\* ---------------------------------------------------------------- termination
\* Number of Execute calls when the process does not die, every Body returns
\* and every store statement succeeds.
MaxLiveRuns == 2
LiveRuns == 1..MaxLiveRuns

\* The steps of the goroutine that called Execute.
Caller(e) ==
    \/ ExecuteStatus(e)
    \/ NewContextCompleted(e)
    \/ NewContextMapping(e)
    \/ NewContextMaxSeq(e)
    \/ StepNext(e, MainThread)
    \/ Go(e)
    \/ Wait(e)
    \/ ExecuteReturn(e)

\* The steps of a goroutine started by ctx.Go.
Branch(e, t) == StepNext(e, t) \/ StepFill(e, t)

NextLive ==
    \/ \E e \in LiveRuns, w \in WorkflowIDs, p \in SeqProcedures \cup ParProcedures :
          ExecuteAlone(e, w, p)
    \/ \E e \in LiveRuns : Caller(e)
    \/ \E e \in LiveRuns, t \in Threads \ {MainThread} : Branch(e, t)

\* The Go scheduler lets every goroutine that can run take its next step.
SpecLive ==
    /\ Init /\ [][NextLive]_vars
    /\ \A e \in LiveRuns : WF_vars(Caller(e))
    /\ \A e \in LiveRuns, t \in Threads \ {MainThread} : WF_vars(Branch(e, t))

\* C31: with Bodies that return, store statements that succeed and a fair
\* scheduler, a Procedure blocked in ctx.Wait gets past it and every Execute
\* call returns; and when it returns the workflow's status is completed or
\* failed.
C31_Termination ==
    /\ \A e \in LiveRuns :
          InStep(e, MainThread, "wait") ~> InStep(e, MainThread, "ret")
    /\ \A e \in LiveRuns : Active(e) ~> run[e].pc = "done"
    /\ [][\A e \in LiveRuns : (run[e].pc # "done" /\ run'[e].pc = "done") =>
              workflows'[run'[e].wf] \in {"completed", "failed"}]_vars

C31_Witness ==
    \E e \in LiveRuns :
        /\ run[e].pc = "done" /\ run[e].proc = ProcPar /\ run[e].res # nil
        /\ <<e, ida, TRUE>> \in invoked /\ <<e, idb, FALSE>> \in invoked
        /\ workflows[run[e].wf] = "failed"

====
